---- MODULE Spec2Model ----
(***************************************************************************)
(* Model of multidb/middleware.py: the two pinning middlewares             *)
(* (PinningRouterMiddleware: cookie channel, PinUsingCacheRouterMiddleware:*)
(* cache channel), the worker threads that run them, the clients that hold *)
(* cookies and sessions, and the shared cache.                             *)
(*                                                                         *)
(* Python values are modelled as strings; None, False and True are the     *)
(* strings below.  A Python dict is a function whose DOMAIN is its key set.*)
(***************************************************************************)
EXTENDS Naturals, Integers, FiniteSets, Sequences, TLC

\* ---------------------------------------------------------------- bounds
\* The clock runs from 0 to MaxTime.
MaxTime == 16
\* Time passes in amounts of ShortStep or ShortStep + 1 seconds.
ShortStep == 7
\* The history counts a client's pinned reads since its last write up to MaxReads.
MaxReads == 2

Workers == {"w1", "w2"}
Clients == {"c1", "c2"}

\* ------------------------------------------------------- Python values
None == "None"
False == "False"
True == "True"

\* Python truthiness of the values that occur here.
Truthy(v) == v \notin {None, False, ""}

EmptyDict == [n \in {} |-> None]

\* ------------------------------------------------- module-level settings
PINNING_COOKIE == "multidb_pin_writes"

PINNING_SECONDS == 15

\* Faulty variant: PUT taken for a read-only method.
READ_ONLY_METHODS_WithPut == {"GET", "TRACE", "HEAD", "OPTIONS", "PUT"}

READ_ONLY_METHODS == {"GET", "TRACE", "HEAD", "OPTIONS"}

\* The methods the clients send.
Methods == READ_ONLY_METHODS \cup {"POST", "PUT"}

\* ------------------------------------------------------------- clients
\* The session key a client's session gets when it is saved.
SessionKeyOf(c) == IF c = "c1" THEN "abc123" ELSE "def456"

\* request.session: no session object (exists = FALSE), or a session whose
\* session_key is None or a key.
NoSession == [exists |-> FALSE, session_key |-> None]
Sessions(c) ==
    {NoSession}
        \cup {[exists |-> TRUE, session_key |-> k] : k \in {None, SessionKeyOf(c)}}

VARIABLES
    middleware,   \* the installed variant: "cookie" or "cache"
    now,          \* the clock, in seconds
    pinned,       \* per worker thread: the thread-local pin flag
    pc,           \* per worker: "idle", "handling" or "sending"
    request,      \* per worker: the request being served
    response,     \* per worker: the response being sent
    jar,          \* per client: its cookies, name -> [value, expires]
    session,      \* per client: the session its requests carry
    cache,        \* the shared cache: key -> [value, expires]
    stale,        \* history: while handling, the worker's flag before detection
    lastWrite,    \* history: per client, its last write-classified response
    observe       \* history: the detail of a write this behaviour records

vars ==
    <<middleware, now, pinned, pc, request, response, jar, session, cache,
      stale, lastWrite, observe>>

NoRequest ==
    [client |-> "", method |-> "", COOKIES |-> EmptyDict, session |-> NoSession]
NoResponse == [attrs |-> EmptyDict, cookies |-> EmptyDict]

\* --------------------------------------------------------- the pin flag
\* multidb.pinning: the thread-local flag the router consults.
\* Faulty variant: one flag for the whole process instead of one per thread.
pin_this_thread_Shared(w) == [v \in Workers |-> TRUE]

pin_this_thread(w) == [pinned EXCEPT ![w] = TRUE]

unpin_this_thread(w) == [pinned EXCEPT ![w] = FALSE]

this_thread_is_pinned(w) == pinned[w]

\* ------------------------------------------------------------ the cache
\* django.core.cache: an entry is readable until its expiry time.
cache_get(key) ==
    IF key \in DOMAIN cache /\ cache[key].expires > now
    THEN cache[key].value
    ELSE None

cache_set(key, value, timeout) ==
    [k \in DOMAIN cache \cup {key} |->
        IF k = key THEN [value |-> value, expires |-> now + timeout]
        ELSE cache[k]]

\* ------------------------------------------------------ request, response
\* The cookies a client's browser sends: those in its jar that have not expired.
CookiesSent(c) ==
    [n \in {m \in DOMAIN jar[c] : jar[c][m].expires > now} |-> jar[c][n].value]

\* HttpResponse.set_cookie(key, value, max_age)
set_cookie(resp, key, value, max_age) ==
    [resp EXCEPT !.cookies =
        [n \in DOMAIN resp.cookies \cup {key} |->
            IF n = key THEN [value |-> value, max_age |-> max_age]
            ELSE resp.cookies[n]]]

\* getattr(response, '_db_write', False)
db_write(resp) ==
    IF "_db_write" \in DOMAIN resp.attrs THEN resp.attrs["_db_write"] ELSE False

\* The response the view returns: it carries the write marker or not.
ViewResponse(marker) ==
    [attrs |-> IF marker = "absent" THEN EmptyDict ELSE [n \in {"_db_write"} |-> marker],
     cookies |-> EmptyDict]

Markers == {"absent", True, False}

\* ------------------------------------------- PinningRouterMiddleware
\* Faulty variant: the flag is set but never cleared.
process_request_NoUnpin(w, req) ==
    IF PINNING_COOKIE \in DOMAIN req.COOKIES \/ req.method \notin READ_ONLY_METHODS
    THEN pin_this_thread(w)
    ELSE pinned

\* Faulty variant: the cookie counts only when it holds "y".
process_request_ValueY(w, req) ==
    IF (PINNING_COOKIE \in DOMAIN req.COOKIES /\ req.COOKIES[PINNING_COOKIE] = "y")
          \/ req.method \notin READ_ONLY_METHODS
    THEN pin_this_thread(w)
    ELSE unpin_this_thread(w)

\* Faulty variant: the cookie is not looked at.
process_request_MethodOnly(w, req) ==
    IF req.method \notin READ_ONLY_METHODS
    THEN pin_this_thread(w)
    ELSE unpin_this_thread(w)

PinningRouterMiddleware_process_request(w, req) ==
    IF PINNING_COOKIE \in DOMAIN req.COOKIES \/ req.method \notin READ_ONLY_METHODS
    THEN pin_this_thread(w)
    ELSE unpin_this_thread(w)

\* Faulty variant: the cookie is set on the first write only, not refreshed.
process_response_FirstOnly(req, resp) ==
    IF (req.method \notin READ_ONLY_METHODS \/ Truthy(db_write(resp)))
          /\ PINNING_COOKIE \notin DOMAIN req.COOKIES
    THEN set_cookie(resp, PINNING_COOKIE, "y", PINNING_SECONDS)
    ELSE resp

\* Faulty variant: the write marker is not looked at.
process_response_MethodOnly(req, resp) ==
    IF req.method \notin READ_ONLY_METHODS
    THEN set_cookie(resp, PINNING_COOKIE, "y", PINNING_SECONDS)
    ELSE resp

\* Faulty variant: a request that carries the cookie refreshes it.
process_response_Sliding(req, resp) ==
    IF req.method \notin READ_ONLY_METHODS \/ Truthy(db_write(resp))
          \/ PINNING_COOKIE \in DOMAIN req.COOKIES
    THEN set_cookie(resp, PINNING_COOKIE, "y", PINNING_SECONDS)
    ELSE resp

PinningRouterMiddleware_process_response(req, resp) ==
    IF req.method \notin READ_ONLY_METHODS \/ Truthy(db_write(resp))
    THEN set_cookie(resp, PINNING_COOKIE, "y", PINNING_SECONDS)
    ELSE resp

\* ------------------------------------- PinUsingCacheRouterMiddleware
\* Faulty variant: the session key is formatted without being tested.
get_cache_key_Unchecked(req) ==
    IF req.session.exists
    THEN "multidb.middleware.PinUsingCacheRouterMiddleware." \o req.session.session_key
    ELSE None

get_cache_key(req) ==
    IF req.session.exists /\ Truthy(req.session.session_key)
    THEN "multidb.middleware.PinUsingCacheRouterMiddleware." \o req.session.session_key
    ELSE None

PinUsingCacheRouterMiddleware_process_request(w, req) ==
    LET cache_key == get_cache_key(req)
        to_pin == IF Truthy(cache_key) THEN cache_get(cache_key) ELSE False
    IN  IF Truthy(to_pin) \/ req.method \notin READ_ONLY_METHODS
        THEN pin_this_thread(w)
        ELSE unpin_this_thread(w)

\* Faulty variant: every response records, whatever its request was.
cache_process_response_Always(req, resp) ==
    LET cache_key == get_cache_key(req)
    IN  IF Truthy(cache_key) THEN cache_set(cache_key, "y", PINNING_SECONDS)
        ELSE cache

\* Faulty variant: the request's method is not looked at.
cache_process_response_MarkerOnly(req, resp) ==
    IF Truthy(db_write(resp))
    THEN LET cache_key == get_cache_key(req)
         IN  IF Truthy(cache_key) THEN cache_set(cache_key, "y", PINNING_SECONDS)
             ELSE cache
    ELSE cache

\* Faulty variant: a response that is no write deletes the entry.
cache_process_response_Clears(req, resp) ==
    LET cache_key == get_cache_key(req)
    IN  IF req.method \notin READ_ONLY_METHODS \/ Truthy(db_write(resp))
        THEN IF Truthy(cache_key) THEN cache_set(cache_key, "y", PINNING_SECONDS)
             ELSE cache
        ELSE [k \in DOMAIN cache \ {cache_key} |-> cache[k]]

\* Faulty variant: the key is the one of the session the client sent, as seen
\* at detection, not of the session the request has now.
cache_process_response_KeyAtDetection(req, resp) ==
    IF req.method \notin READ_ONLY_METHODS \/ Truthy(db_write(resp))
    THEN LET cache_key == get_cache_key([req EXCEPT !.session = session[req.client]])
         IN  IF Truthy(cache_key) THEN cache_set(cache_key, "y", PINNING_SECONDS)
             ELSE cache
    ELSE cache

\* Faulty variant: the store is read first and the entry is set only when
\* the lookup finds none (cache.add in place of cache.set).
cache_process_response_Add(req, resp) ==
    IF req.method \notin READ_ONLY_METHODS \/ Truthy(db_write(resp))
    THEN LET cache_key == get_cache_key(req)
         IN  IF Truthy(cache_key) /\ ~Truthy(cache_get(cache_key))
             THEN cache_set(cache_key, "y", PINNING_SECONDS)
             ELSE cache
    ELSE cache

\* The cache after process_response.
PinUsingCacheRouterMiddleware_process_response(req, resp) ==
    IF req.method \notin READ_ONLY_METHODS \/ Truthy(db_write(resp))
    THEN LET cache_key == get_cache_key(req)
         IN  IF Truthy(cache_key) THEN cache_set(cache_key, "y", PINNING_SECONDS)
             ELSE cache
    ELSE cache

\* ------------------------------------------------------------ history
\* Whether a completed request counts as a write: by its method, or by the
\* marker on its response.
WriteClassified(method, marker) ==
    method \notin {"GET", "TRACE", "HEAD", "OPTIONS"} \/ marker = True

\* No write yet.  Otherwise: when the response phase ran and, as far as the
\* behaviour observes it, on which worker, whether the request had a read-only
\* method (and so counted by its marker), and how many read-only requests of
\* the client were pinned since.
Details == {"worker", "marker", "reads"}

NoWrite == [at |-> -1, by |-> "", marked |-> FALSE, reads |-> 0]

\* The history after the response phase of worker w's request.
WriteNoted(w, marker) ==
    LET req == request[w]
        channel == middleware = "cookie"
                      \/ (req.session.exists /\ req.session.session_key # None)
    IN  IF WriteClassified(req.method, marker) /\ channel
        THEN [lastWrite EXCEPT ![req.client] =
                 [at |-> now,
                  by |-> IF observe = "worker" THEN w ELSE "",
                  marked |-> observe = "marker"
                                /\ req.method \in {"GET", "TRACE", "HEAD", "OPTIONS"},
                  reads |-> 0]]
        ELSE lastWrite

\* The history after a detection for client c that left the flag as flag.
ReadNoted(c, method, flag) ==
    IF observe = "reads" /\ method \in {"GET", "TRACE", "HEAD", "OPTIONS"} /\ flag
          /\ lastWrite[c].at >= 0 /\ lastWrite[c].reads < MaxReads
    THEN [lastWrite EXCEPT ![c].reads = @ + 1]
    ELSE lastWrite

\* ---------------------------------------------------------------- Init
\* Client c1 has a saved session; client c2 has none, or one not saved yet.
Init ==
    /\ middleware \in {"cookie", "cache"}
    /\ now = 0
    /\ pinned = [w \in Workers |-> FALSE]
    /\ pc = [w \in Workers |-> "idle"]
    /\ request = [w \in Workers |-> NoRequest]
    /\ response = [w \in Workers |-> NoResponse]
    /\ jar = [c \in Clients |-> EmptyDict]
    /\ session \in [Clients -> UNION {Sessions(c) : c \in Clients}]
    /\ session["c1"] = [exists |-> TRUE, session_key |-> SessionKeyOf("c1")]
    /\ session["c2"] \in Sessions("c2")
    /\ session["c2"].session_key = None
    /\ cache = EmptyDict
    /\ stale = [w \in Workers |-> FALSE]
    /\ lastWrite = [c \in Clients |-> NoWrite]
    /\ observe \in Details

\* ------------------------------------------------------------- actions
\* Faulty variant: detection uses the evidence up, deleting the cookie it
\* found from the client and the entry it found from the store.
ProcessRequest_Consumes(w, c, method) ==
    /\ pc[w] = "idle"
    /\ LET req == [client |-> c, method |-> method,
                   COOKIES |-> CookiesSent(c), session |-> session[c]]
           cache_key == get_cache_key(req)
       IN  /\ request' = [request EXCEPT ![w] = req]
           /\ pinned' = IF middleware = "cookie"
                        THEN PinningRouterMiddleware_process_request(w, req)
                        ELSE PinUsingCacheRouterMiddleware_process_request(w, req)
           /\ jar' = IF middleware = "cookie"
                     THEN [jar EXCEPT ![c] =
                              [n \in DOMAIN jar[c] \ {PINNING_COOKIE} |-> jar[c][n]]]
                     ELSE jar
           /\ cache' = IF middleware = "cache"
                       THEN [k \in DOMAIN cache \ {cache_key} |-> cache[k]]
                       ELSE cache
    /\ stale' = [stale EXCEPT ![w] = pinned[w]]
    /\ lastWrite' = ReadNoted(c, method, pinned'[w])
    /\ pc' = [pc EXCEPT ![w] = "handling"]
    /\ UNCHANGED <<observe, middleware, now, response, session>>

\* A request of client c arrives at idle worker w; the installed middleware's
\* process_request runs on it.
ProcessRequest(w, c, method) ==
    /\ pc[w] = "idle"
    /\ LET req == [client |-> c, method |-> method,
                   COOKIES |-> CookiesSent(c), session |-> session[c]]
       IN  /\ request' = [request EXCEPT ![w] = req]
           /\ pinned' = IF middleware = "cookie"
                        THEN PinningRouterMiddleware_process_request(w, req)
                        ELSE PinUsingCacheRouterMiddleware_process_request(w, req)
    /\ stale' = [stale EXCEPT ![w] = pinned[w]]
    /\ lastWrite' = ReadNoted(c, method, pinned'[w])
    /\ pc' = [pc EXCEPT ![w] = "handling"]
    /\ UNCHANGED <<observe, middleware, now, response, jar, session, cache>>

\* The view saves the request's session, which gives it a session key.
Login(w) ==
    /\ pc[w] = "handling"
    /\ request[w].session.exists
    /\ request[w].session.session_key = None
    /\ request' = [request EXCEPT
                      ![w].session.session_key = SessionKeyOf(request[w].client)]
    /\ UNCHANGED <<observe, middleware, now, pinned, pc, response, jar, session, cache,
                   stale, lastWrite>>

\* Faulty variant: a response phase that records a write also pins the thread.
ProcessResponse_PinsOnWrite(w, marker) ==
    /\ pc[w] = "handling"
    /\ LET req == request[w]
           resp == ViewResponse(marker)
       IN  /\ response' = [response EXCEPT ![w] =
                  IF middleware = "cookie"
                  THEN PinningRouterMiddleware_process_response(req, resp)
                  ELSE resp]
           /\ cache' = IF middleware = "cache"
                       THEN PinUsingCacheRouterMiddleware_process_response(req, resp)
                       ELSE cache
           /\ pinned' = IF req.method \notin READ_ONLY_METHODS \/ Truthy(db_write(resp))
                        THEN pin_this_thread(w)
                        ELSE pinned
    /\ lastWrite' = WriteNoted(w, marker)
    /\ stale' = [stale EXCEPT ![w] = FALSE]
    /\ pc' = [pc EXCEPT ![w] = "sending"]
    /\ UNCHANGED <<observe, middleware, now, request, jar, session>>

\* The view returns its response, with or without the write marker; the
\* installed middleware's process_response runs on it and returns it.
ProcessResponse(w, marker) ==
    /\ pc[w] = "handling"
    /\ LET req == request[w]
           resp == ViewResponse(marker)
       IN  /\ response' = [response EXCEPT ![w] =
                  IF middleware = "cookie"
                  THEN PinningRouterMiddleware_process_response(req, resp)
                  ELSE resp]
           /\ cache' = IF middleware = "cache"
                       THEN PinUsingCacheRouterMiddleware_process_response(req, resp)
                       ELSE cache
    /\ lastWrite' = WriteNoted(w, marker)
    /\ stale' = [stale EXCEPT ![w] = FALSE]
    /\ pc' = [pc EXCEPT ![w] = "sending"]
    /\ UNCHANGED <<observe, middleware, now, pinned, request, jar, session>>

\* Handling is aborted before the response phase: process_response does not
\* run and the client gets no response of the middleware's.
Abort(w) ==
    /\ pc[w] = "handling"
    /\ pc' = [pc EXCEPT ![w] = "idle"]
    /\ request' = [request EXCEPT ![w] = NoRequest]
    /\ stale' = [stale EXCEPT ![w] = FALSE]
    /\ UNCHANGED <<observe, middleware, now, pinned, response, jar, session, cache,
                   lastWrite>>

\* The client receives the response: its browser stores the cookies with
\* their expiry, and its later requests carry the session if it was saved.
Deliver(w) ==
    /\ pc[w] = "sending"
    /\ LET c == request[w].client
           set == response[w].cookies
       IN  /\ jar' = [jar EXCEPT ![c] =
                  [n \in DOMAIN jar[c] \cup DOMAIN set |->
                      IF n \in DOMAIN set
                      THEN [value |-> set[n].value, expires |-> now + set[n].max_age]
                      ELSE jar[c][n]]]
           /\ session' = [session EXCEPT ![c] =
                  IF request[w].session.session_key # None
                  THEN request[w].session
                  ELSE session[c]]
    /\ pc' = [pc EXCEPT ![w] = "idle"]
    /\ request' = [request EXCEPT ![w] = NoRequest]
    /\ response' = [response EXCEPT ![w] = NoResponse]
    /\ UNCHANGED <<observe, middleware, now, pinned, cache, stale, lastWrite>>

\* Time passes.  A response reaches its client in the instant it is sent.
Tick(d) ==
    /\ now + d <= MaxTime
    /\ \A w \in Workers : pc[w] # "sending"
    /\ now' = now + d
    /\ UNCHANGED <<observe, middleware, pinned, pc, request, response, jar, session, cache,
                   stale, lastWrite>>

\* The workers serve one request at a time between them: a request goes to
\* any worker once the one before it has been answered.
Next ==
    \/ \E w \in Workers, c \in Clients, method \in Methods :
           /\ \A v \in Workers : pc[v] = "idle"
           /\ ProcessRequest(w, c, method)
    \/ \E w \in Workers : Login(w)
    \/ \E w \in Workers, marker \in Markers : ProcessResponse(w, marker)
    \/ \E w \in Workers : Abort(w)
    \/ \E w \in Workers : Deliver(w)
    \/ \E d \in {ShortStep, ShortStep + 1} : Tick(d)

Spec == Init /\ [][Next]_vars

\* The workers serve requests at the same time.
ConcurrentMethods == {"GET", "POST"}

NextConcurrent ==
    \/ \E w \in Workers, c \in Clients, method \in ConcurrentMethods :
           ProcessRequest(w, c, method)
    \/ \E w \in Workers : Login(w)
    \/ \E w \in Workers, marker \in Markers : ProcessResponse(w, marker)
    \/ \E w \in Workers : Abort(w)
    \/ \E w \in Workers : Deliver(w)
    \/ Tick(ShortStep + 1)

InitConcurrent == Init /\ observe = "worker"

SpecConcurrent == InitConcurrent /\ [][NextConcurrent]_vars

\* The channel holds values the middleware did not write: a client sends the
\* cookie with a value of its own, or another user of the shared cache sets
\* the entry of a client's session key.
ForeignValues == {"", "n"}

ForeignEvidence(c, v) ==
    /\ \A w \in Workers : pc[w] = "idle"
    /\ IF middleware = "cookie"
       THEN /\ jar' = [jar EXCEPT ![c] =
                   [n \in DOMAIN jar[c] \cup {PINNING_COOKIE} |->
                       IF n = PINNING_COOKIE
                       THEN [value |-> v, expires |-> now + PINNING_SECONDS]
                       ELSE jar[c][n]]]
            /\ cache' = cache
       ELSE /\ cache' = cache_set(
                   "multidb.middleware.PinUsingCacheRouterMiddleware." \o SessionKeyOf(c),
                   v, PINNING_SECONDS)
            /\ jar' = jar
    /\ UNCHANGED <<observe, middleware, now, pinned, pc, request, response, session,
                   stale, lastWrite>>

InitForeign == Init /\ observe = "worker"

NextForeign ==
    \/ \E c \in Clients, method \in ConcurrentMethods : ProcessRequest("w1", c, method)
    \/ Login("w1")
    \/ \E marker \in Markers : ProcessResponse("w1", marker)
    \/ Abort("w1")
    \/ Deliver("w1")
    \/ Tick(ShortStep + 1)
    \/ \E c \in Clients, v \in ForeignValues : ForeignEvidence(c, v)

SpecForeign == InitForeign /\ [][NextForeign]_vars

\* The two variants side by side: worker w1 runs PinningRouterMiddleware,
\* worker w2 runs PinUsingCacheRouterMiddleware, and both are given the same
\* requests of clients that have a session key, at the same times, with the
\* same responses of the view.  The client returns the cookies the cookie
\* variant sets; the cache variant sets none.
InitSideBySide ==
    /\ middleware = "both"
    /\ now = 0
    /\ pinned = [w \in Workers |-> FALSE]
    /\ pc = [w \in Workers |-> "idle"]
    /\ request = [w \in Workers |-> NoRequest]
    /\ response = [w \in Workers |-> NoResponse]
    /\ jar = [c \in Clients |-> EmptyDict]
    /\ session = [c \in Clients |-> [exists |-> TRUE, session_key |-> SessionKeyOf(c)]]
    /\ cache = EmptyDict
    /\ stale = [w \in Workers |-> FALSE]
    /\ lastWrite = [c \in Clients |-> NoWrite]
    /\ observe = "worker"

SideRequest(c, method) ==
    /\ \A w \in Workers : pc[w] = "idle"
    /\ LET viaCookie == [client |-> c, method |-> method,
                         COOKIES |-> CookiesSent(c), session |-> session[c]]
           viaCache == [client |-> c, method |-> method,
                        COOKIES |-> EmptyDict, session |-> session[c]]
       IN  /\ request' = [w \in Workers |-> IF w = "w1" THEN viaCookie ELSE viaCache]
           /\ pinned' = [w \in Workers |->
                  IF w = "w1"
                  THEN PinningRouterMiddleware_process_request("w1", viaCookie)["w1"]
                  ELSE PinUsingCacheRouterMiddleware_process_request("w2", viaCache)["w2"]]
    /\ stale' = pinned
    /\ pc' = [w \in Workers |-> "handling"]
    /\ UNCHANGED <<observe, middleware, now, response, jar, session, cache, lastWrite>>

SideResponse(marker) ==
    /\ \A w \in Workers : pc[w] = "handling"
    /\ LET resp == ViewResponse(marker)
       IN  /\ response' = [w \in Workers |->
                  IF w = "w1"
                  THEN PinningRouterMiddleware_process_response(request["w1"], resp)
                  ELSE resp]
           /\ cache' = PinUsingCacheRouterMiddleware_process_response(request["w2"], resp)
    /\ stale' = [w \in Workers |-> FALSE]
    /\ pc' = [w \in Workers |-> "sending"]
    /\ UNCHANGED <<observe, middleware, now, pinned, request, jar, session, lastWrite>>

SideAbort ==
    /\ \A w \in Workers : pc[w] = "handling"
    /\ pc' = [w \in Workers |-> "idle"]
    /\ request' = [w \in Workers |-> NoRequest]
    /\ stale' = [w \in Workers |-> FALSE]
    /\ UNCHANGED <<observe, middleware, now, pinned, response, jar, session, cache,
                   lastWrite>>

SideDeliver ==
    /\ \A w \in Workers : pc[w] = "sending"
    /\ LET c == request["w1"].client
           set == response["w1"].cookies
       IN  jar' = [jar EXCEPT ![c] =
                  [n \in DOMAIN jar[c] \cup DOMAIN set |->
                      IF n \in DOMAIN set
                      THEN [value |-> set[n].value, expires |-> now + set[n].max_age]
                      ELSE jar[c][n]]]
    /\ pc' = [w \in Workers |-> "idle"]
    /\ request' = [w \in Workers |-> NoRequest]
    /\ response' = [w \in Workers |-> NoResponse]
    /\ UNCHANGED <<observe, middleware, now, pinned, session, cache, stale, lastWrite>>

NextSideBySide ==
    \/ \E c \in Clients, method \in Methods : SideRequest(c, method)
    \/ \E marker \in Markers : SideResponse(marker)
    \/ SideAbort
    \/ SideDeliver
    \/ \E d \in {ShortStep, ShortStep + 1} : Tick(d)

SpecSideBySide == InitSideBySide /\ [][NextSideBySide]_vars

\* ============================================================ properties
\* The notions the properties are stated in.
ReadOnlyMethod(m) == m \in {"GET", "TRACE", "HEAD", "OPTIONS"}

StoreKey(k) == "multidb.middleware.PinUsingCacheRouterMiddleware." \o k

HasKey(sess) == sess.exists /\ sess.session_key \notin {None, ""}

\* Propagation evidence is present for request req: its cookies hold the
\* cookie key, or the store holds a live, non-empty value under its key.
Evidence(req) ==
    IF middleware = "cookie"
    THEN PINNING_COOKIE \in DOMAIN req.COOKIES
    ELSE /\ HasKey(req.session)
         /\ StoreKey(req.session.session_key) \in DOMAIN cache
         /\ cache[StoreKey(req.session.session_key)].expires > now
         /\ cache[StoreKey(req.session.session_key)].value \notin {None, ""}

\* The write marker of a response; a missing one counts as False.
MarkerOf(resp) ==
    IF "_db_write" \in DOMAIN resp.attrs THEN resp.attrs["_db_write"] ELSE False

\* The steps: worker w runs the detection phase, the response phase.
Detects(w) == pc[w] = "idle" /\ pc'[w] = "handling"

Responds(w) == pc[w] = "handling" /\ pc'[w] = "sending"

\* The evidence a write leaves in a response and in the store.
PinCookie == [n \in {PINNING_COOKIE} |-> [value |-> "y", max_age |-> PINNING_SECONDS]]

Recorded(key) ==
    [k \in DOMAIN cache \cup {key} |->
        IF k = key THEN [value |-> "y", expires |-> now + PINNING_SECONDS]
        ELSE cache[k]]

\* C1: a detection on a request with a read-only method and no evidence
\* leaves the worker's flag false, whatever the flag was before.
C1_ReadOnlyNoEvidenceUnpinned ==
    [][\A w \in Workers :
          (Detects(w) /\ ReadOnlyMethod(request'[w].method) /\ ~Evidence(request'[w]))
              => pinned'[w] = FALSE]_vars

\* C1 happens: a read-only request without evidence is unpinned on a worker
\* whose flag was still set by the request it served before.
C1_Witness ==
    \E w \in Workers :
        /\ pc[w] = "handling"
        /\ ReadOnlyMethod(request[w].method)
        /\ ~Evidence(request[w])
        /\ stale[w]
        /\ ~pinned[w]

\* C2: a detection on a request whose method is not read-only leaves the
\* flag true, with or without evidence or session, whatever the flag was.
C2_WriteMethodPinned ==
    [][\A w \in Workers :
          (Detects(w) /\ ~ReadOnlyMethod(request'[w].method)) => pinned'[w] = TRUE]_vars

\* C2 happens: a PUT without a session and without evidence is pinned on a
\* worker whose flag was clear.
C2_Witness ==
    \E w \in Workers :
        /\ pc[w] = "handling"
        /\ request[w].method = "PUT"
        /\ ~request[w].session.exists
        /\ ~Evidence(request[w])
        /\ ~stale[w]
        /\ pinned[w]

\* C3: a detection on a request for which evidence is present leaves the
\* flag true, whatever the request's method.
C3_EvidencePinned ==
    [][\A w \in Workers :
          (Detects(w) /\ Evidence(request'[w])) => pinned'[w] = TRUE]_vars

\* C3 happens: a read-only request with evidence present is pinned.
C3_Witness ==
    \E w \in Workers :
        /\ pc[w] = "handling"
        /\ request[w].method = "GET"
        /\ Evidence(request[w])
        /\ ~stale[w]
        /\ pinned[w]

\* C4: the response phase records evidence exactly when the request's method
\* is not read-only or the response carries a true marker: the value "y"
\* under the cookie name with max-age PINNING_SECONDS, or under the key of
\* the request's session key with that lifetime; otherwise the response's
\* cookies and the store stay as they were.
C4_RecordsIffWrite ==
    [][\A w \in Workers :
          Responds(w) =>
              LET req == request[w]
                  resp == response'[w]
                  isWrite == ~ReadOnlyMethod(req.method) \/ MarkerOf(resp) = True
              IN  IF middleware = "cookie"
                  THEN /\ resp.cookies = IF isWrite THEN PinCookie ELSE EmptyDict
                       /\ cache' = cache
                  ELSE /\ resp.cookies = EmptyDict
                       /\ cache' = IF isWrite /\ HasKey(req.session)
                                   THEN Recorded(StoreKey(req.session.session_key))
                                   ELSE cache]_vars

\* C4 happens: the response phase of a PUT with session key abc123 has
\* written "y" under that key's store key with the full lifetime.
C4_Witness ==
    \E w \in Workers :
        /\ pc[w] = "sending"
        /\ middleware = "cache"
        /\ request[w].method = "PUT"
        /\ request[w].session.session_key = "abc123"
        /\ "multidb.middleware.PinUsingCacheRouterMiddleware.abc123" \in DOMAIN cache
        /\ cache["multidb.middleware.PinUsingCacheRouterMiddleware.abc123"]
              = [value |-> "y", expires |-> now + 15]

\* C5: once the response phase of a write-classified request of a client has
\* recorded evidence, a detection on a later request of that client that runs
\* before PINNING_SECONDS have passed since leaves the flag true, on any worker.
C5_ReadYourWrites ==
    [][\A w \in Workers :
          Detects(w) =>
              LET c == request'[w].client
              IN  (lastWrite[c].at >= 0 /\ now < lastWrite[c].at + PINNING_SECONDS)
                      => pinned'[w] = TRUE]_vars

\* C5 happens: a read-only request is pinned within the window of a write
\* that another worker recorded.
C5_Witness ==
    \E w \in Workers :
        LET c == request[w].client
        IN  /\ pc[w] = "handling"
            /\ middleware = "cache"
            /\ request[w].method = "GET"
            /\ lastWrite[c].by \in Workers \ {w}
            /\ lastWrite[c].at < now
            /\ now < lastWrite[c].at + PINNING_SECONDS
            /\ pinned[w]

\* A response with the pin cookie is on its way to client c.
CookieOnItsWay(c) ==
    \E w \in Workers :
        /\ pc[w] = "sending"
        /\ request[w].client = c
        /\ response[w].cookies = PinCookie

\* A lookup for client c finds evidence.
LookupFinds(c) ==
    IF middleware = "cookie"
    THEN PINNING_COOKIE \in DOMAIN CookiesSent(c)
    ELSE cache_get(StoreKey(SessionKeyOf(c))) = "y"

\* C6: the evidence of a client holds "y" and runs out PINNING_SECONDS after
\* the client's latest write-classified response, whatever lifetime an
\* earlier recording had left, and a lookup finds it from that instant on.
C6_Refresh ==
    \A c \in Clients :
        lastWrite[c].at >= 0 =>
            IF middleware = "cookie"
            THEN \/ lastWrite[c].at = now /\ CookieOnItsWay(c)
                 \/ /\ PINNING_COOKIE \in DOMAIN jar[c]
                    /\ jar[c][PINNING_COOKIE]
                          = [value |-> "y", expires |-> lastWrite[c].at + PINNING_SECONDS]
                    /\ (now < lastWrite[c].at + PINNING_SECONDS => LookupFinds(c))
            ELSE /\ StoreKey(SessionKeyOf(c)) \in DOMAIN cache
                 /\ cache[StoreKey(SessionKeyOf(c))]
                       = [value |-> "y", expires |-> lastWrite[c].at + PINNING_SECONDS]
                 /\ (now < lastWrite[c].at + PINNING_SECONDS => LookupFinds(c))

\* C6 happens: a second write is recorded while the cookie of the first one
\* still has part of its lifetime left.
C6_Witness ==
    \E w \in Workers :
        LET c == request[w].client
        IN  /\ pc[w] = "sending"
            /\ middleware = "cookie"
            /\ request[w].method = "POST"
            /\ response[w].cookies = PinCookie
            /\ PINNING_COOKIE \in DOMAIN jar[c]
            /\ now < jar[c][PINNING_COOKIE].expires
            /\ jar[c][PINNING_COOKIE].expires < now + PINNING_SECONDS
            /\ lastWrite[c].at = now

\* C7: in the cache variant, for a request with no session or with a session
\* without a key, detection finds no evidence (a read-only request is
\* unpinned) and the response phase leaves the store as it was.
C7_NoSessionNoPropagation ==
    [][\A w \in Workers :
          middleware = "cache" =>
              /\ (Detects(w) /\ ~HasKey(request'[w].session)
                     /\ ReadOnlyMethod(request'[w].method)) => pinned'[w] = FALSE
              /\ (Responds(w) /\ ~HasKey(request[w].session)) => cache' = cache]_vars

\* C7 happens: the response phase of a POST without a session has run while
\* the store holds another client's evidence.
C7_Witness ==
    \E w \in Workers :
        /\ pc[w] = "sending"
        /\ middleware = "cache"
        /\ request[w].method = "POST"
        /\ ~request[w].session.exists
        /\ DOMAIN cache = {StoreKey("abc123")}

\* C8: a read-only request without evidence is unpinned by detection; the
\* response phase leaves its flag alone and, when the response carries a
\* true marker, records evidence with the full window, and the client's next
\* request within that window is pinned.
C8_MarkerOverridesMethod ==
    [][\A w \in Workers :
          /\ (Detects(w) /\ ReadOnlyMethod(request'[w].method) /\ ~Evidence(request'[w]))
                => ~pinned'[w]
          /\ (Responds(w) /\ ReadOnlyMethod(request[w].method)
                 /\ MarkerOf(response'[w]) = True)
                => /\ pinned'[w] = pinned[w]
                   /\ middleware = "cookie" => response'[w].cookies = PinCookie
                   /\ (middleware = "cache" /\ HasKey(request[w].session))
                         => cache' = Recorded(StoreKey(request[w].session.session_key))
          /\ (Detects(w) /\ lastWrite[request'[w].client].marked
                 /\ now < lastWrite[request'[w].client].at + PINNING_SECONDS)
                => pinned'[w]]_vars

\* C8 happens: a read-only request is pinned within the window of a write
\* that was a read-only request with a marked response.
C8_Witness ==
    \E w \in Workers :
        LET c == request[w].client
        IN  /\ pc[w] = "handling"
            /\ middleware = "cookie"
            /\ request[w].method = "GET"
            /\ lastWrite[c].marked
            /\ now < lastWrite[c].at + PINNING_SECONDS
            /\ pinned[w]

\* The step: the client of worker w receives the response.
Delivers(w) == pc[w] = "sending" /\ pc'[w] = "idle"

\* C9: the response phase of a read-only request without a true marker
\* writes no evidence, pinned or not, so a read-only request of a client that
\* comes PINNING_SECONDS or more after the client's last write-classified
\* response is unpinned, however many pinned reads came in between.
C9_PinnedReadsDoNotExtend ==
    [][\A w \in Workers :
          /\ (Responds(w) /\ ReadOnlyMethod(request[w].method)
                 /\ MarkerOf(response'[w]) # True)
                => cache' = cache /\ response'[w].cookies = EmptyDict
          /\ (Delivers(w) /\ response[w].cookies = EmptyDict) => jar' = jar
          /\ (Detects(w) /\ ReadOnlyMethod(request'[w].method)
                 /\ lastWrite[request'[w].client].at >= 0
                 /\ now >= lastWrite[request'[w].client].at + PINNING_SECONDS)
                => ~pinned'[w]]_vars

\* C9 happens: after pinned reads, a read-only request that comes when the
\* window of the client's last write is over is unpinned.
C9_Witness ==
    \E w \in Workers :
        LET c == request[w].client
        IN  /\ pc[w] = "handling"
            /\ ReadOnlyMethod(request[w].method)
            /\ lastWrite[c].at >= 0
            /\ lastWrite[c].reads = MaxReads
            /\ now >= lastWrite[c].at + PINNING_SECONDS
            /\ ~pinned[w]

\* The evidence held for cookie or key is live.
Live(entry) == entry.expires > now

\* C10: no step removes an entry of the store or of a client's cookies,
\* changes its value or moves its expiry earlier, and no response tells the
\* client to drop the cookie; evidence that was live and is not any more has
\* reached its expiry time.
C10_NeverCleared ==
    [][/\ \A k \in DOMAIN cache :
             /\ k \in DOMAIN cache'
             /\ cache'[k].value = cache[k].value
             /\ cache'[k].expires >= cache[k].expires
             /\ (cache[k].expires > now /\ ~(cache'[k].expires > now'))
                   => now' >= cache[k].expires
       /\ \A c \in Clients : \A n \in DOMAIN jar[c] :
             /\ n \in DOMAIN jar'[c]
             /\ jar'[c][n].value = jar[c][n].value
             /\ jar'[c][n].expires >= jar[c][n].expires
             /\ (jar[c][n].expires > now /\ ~(jar'[c][n].expires > now'))
                   => now' >= jar[c][n].expires
       /\ \A w \in Workers : \A n \in DOMAIN response'[w].cookies :
             response'[w].cookies[n].max_age > 0]_vars

\* C10 happens: live evidence has gone through the detection and the response
\* phase of an unmarked read-only request and keeps the expiry it had.
C10_Witness ==
    \E w \in Workers :
        LET k == StoreKey(request[w].session.session_key)
        IN  /\ pc[w] = "sending"
            /\ middleware = "cache"
            /\ ReadOnlyMethod(request[w].method)
            /\ MarkerOf(response[w]) = False
            /\ HasKey(request[w].session)
            /\ k \in DOMAIN cache
            /\ Live(cache[k])
            /\ cache[k].expires < now + PINNING_SECONDS

\* An entry is held for request req, whatever its value: its cookies hold the
\* cookie key, or the store holds a live entry under its key.
Present(req) ==
    IF middleware = "cookie"
    THEN PINNING_COOKIE \in DOMAIN req.COOKIES
    ELSE /\ HasKey(req.session)
         /\ StoreKey(req.session.session_key) \in DOMAIN cache
         /\ cache[StoreKey(req.session.session_key)].expires > now

\* The value of that entry.
ValueHeld(req) ==
    IF middleware = "cookie"
    THEN req.COOKIES[PINNING_COOKIE]
    ELSE cache[StoreKey(req.session.session_key)].value

\* C11 as stated: a detection on a request for which an entry is held leaves
\* the flag true, whatever value the entry holds, an empty one included.
C11_PresencePinsAnyValue ==
    [][\A w \in Workers :
          (Detects(w) /\ Present(request'[w])) => pinned'[w] = TRUE]_vars

\* C11: in the cookie variant an entry pins whatever its value, an empty one
\* included; in the cache variant an entry pins when its value is not empty,
\* and an entry with an empty value counts as no evidence: a read-only
\* request is then unpinned.
C11_PresencePinsCookieNonEmptyPinsCache ==
    [][\A w \in Workers :
          (Detects(w) /\ Present(request'[w])) =>
              IF middleware = "cookie" \/ ValueHeld(request'[w]) # ""
              THEN pinned'[w] = TRUE
              ELSE pinned'[w] = ~ReadOnlyMethod(request'[w].method)]_vars

\* C11 happens: a read-only request whose cookie holds the empty value is
\* pinned.
C11_Witness ==
    \E w \in Workers :
        /\ pc[w] = "handling"
        /\ middleware = "cookie"
        /\ request[w].method = "GET"
        /\ PINNING_COOKIE \in DOMAIN request[w].COOKIES
        /\ request[w].COOKIES[PINNING_COOKIE] = ""
        /\ pinned[w]

\* C12: with the workers serving requests at the same time, a worker's flag
\* changes only in that worker's own detection, which sets it to the decision
\* for its request; a detection on another worker leaves it alone, so between
\* two detections of a worker its flag is the decision of the earlier one.
C12_WorkerIsolation ==
    [][\A w \in Workers :
          IF Detects(w)
          THEN pinned'[w] = (Evidence(request'[w])
                                \/ ~ReadOnlyMethod(request'[w].method))
          ELSE pinned'[w] = pinned[w]]_vars

\* C12 happens: two workers handle requests at the same time, one pinned by
\* its write, the other unpinned by its read although its flag was set before.
C12_Witness ==
    /\ pc["w1"] = "handling"
    /\ pc["w2"] = "handling"
    /\ request["w1"].method = "POST"
    /\ pinned["w1"]
    /\ request["w2"].method = "GET"
    /\ stale["w2"]
    /\ ~pinned["w2"]

\* A response phase of the cache variant touches the store at most under the
\* key of its request, and what it writes there does not depend on what the
\* store held.
StepKeepsOtherKeys ==
    \A w \in Workers :
        (Responds(w) /\ middleware = "cache") =>
            LET req == request[w]
                isWrite == ~ReadOnlyMethod(req.method) \/ MarkerOf(response'[w]) = True
                mine == IF HasKey(req.session) /\ isWrite
                        THEN {StoreKey(req.session.session_key)}
                        ELSE {}
            IN  /\ DOMAIN cache' = DOMAIN cache \cup mine
                /\ \A k \in DOMAIN cache \ mine : cache'[k] = cache[k]
                /\ \A k \in mine :
                       cache'[k] = [value |-> "y", expires |-> now + PINNING_SECONDS]

\* A client's entry is the one its latest recording wrote.
LatestRecordingStands ==
    middleware = "cache" =>
        \A c \in Clients :
            lastWrite[c].at >= 0 =>
                /\ StoreKey(SessionKeyOf(c)) \in DOMAIN cache
                /\ cache[StoreKey(SessionKeyOf(c))] =
                       [value |-> "y", expires |-> lastWrite[c].at + PINNING_SECONDS]

\* C13: with the workers running response phases at the same time on the
\* shared store, a recording for a session key sets that key's entry to "y"
\* with the full lifetime from this instant, whatever the entry was, and
\* leaves every other key's entry (value and expiry) as it was; so after any
\* interleaving a client's entry is "y" and expires PINNING_SECONDS after the
\* latest recording for it.
C13_ConcurrentRecording ==
    [][StepKeepsOtherKeys]_vars /\ []LatestRecordingStands

\* C13 happens: both workers have just recorded a write of the same client,
\* one after the other, while another client's older entry is in the store:
\* the client's entry has the full lifetime and the older entry kept its own.
C13_Witness ==
    /\ middleware = "cache"
    /\ \A w \in Workers :
           /\ pc[w] = "sending"
           /\ request[w].client = "c1"
           /\ request[w].method = "POST"
    /\ lastWrite["c1"].by = "w2"
    /\ cache[StoreKey(SessionKeyOf("c1"))] =
           [value |-> "y", expires |-> now + PINNING_SECONDS]
    /\ StoreKey(SessionKeyOf("c2")) \in DOMAIN cache
    /\ cache[StoreKey(SessionKeyOf("c2"))].expires < now + PINNING_SECONDS
    /\ cache[StoreKey(SessionKeyOf("c2"))].expires > now

\* The evidence a request of client c would carry if it arrived now.
EvidenceHeld(c) ==
    IF middleware = "cookie"
    THEN PINNING_COOKIE \in DOMAIN CookiesSent(c)
    ELSE /\ HasKey(session[c])
         /\ StoreKey(session[c].session_key) \in DOMAIN cache
         /\ cache[StoreKey(session[c].session_key)].expires > now
         /\ cache[StoreKey(session[c].session_key)].value \notin {None, ""}

\* C14: a detection leaves the cookies of the request, the cookies the
\* client holds and every entry of the store (value and expiry) as they were,
\* so evidence a detection found is there for the client's next request too.
C14_DetectionDoesNotConsume ==
    [][\A w \in Workers, c \in Clients :
          (Detects(w) /\ request'[w].client = c) =>
              /\ request'[w].COOKIES = CookiesSent(c)
              /\ jar' = jar
              /\ cache' = cache
              /\ EvidenceHeld(c) => EvidenceHeld(c)']_vars

\* C14 happens: a read-only request is pinned by evidence that has already
\* pinned MaxReads read-only requests of the client since it was recorded.
C14_Witness ==
    \E w \in Workers :
        /\ pc[w] = "handling"
        /\ request[w].method = "GET"
        /\ Evidence(request[w])
        /\ pinned[w]
        /\ lastWrite[request[w].client].reads = MaxReads

\* The step: handling of worker w's request is given up before the response
\* phase.
Aborts(w) == pc[w] = "handling" /\ pc'[w] = "idle"

\* C15: from a request's detection up to its being aborted nothing is
\* recorded: the detection, the handling and the abort leave the clients'
\* cookies and the store as they were, whatever the request's method, and the
\* abort sends no response; and the next detection on the worker sets the
\* flag from its own request alone, as it would have without the aborted one.
C15_AbortRecordsNothing ==
    [][\A w \in Workers :
          /\ (pc[w] \in {"idle", "handling"} /\ pc'[w] \in {"idle", "handling"}
                 /\ pc'[w] # pc[w]) => (cache' = cache /\ jar' = jar)
          /\ Aborts(w) =>
                 /\ response' = response
                 /\ lastWrite' = lastWrite
                 /\ \A v \in Workers : pc'[v] # "sending"
          /\ Detects(w) =>
                 pinned'[w] = (Evidence(request'[w])
                                  \/ ~ReadOnlyMethod(request'[w].method))]_vars

\* C15 happens: a read-only request is unpinned on a worker whose flag was
\* still set by a write-method request that was aborted: no write of any
\* client has been recorded.
C15_Witness ==
    \E w \in Workers :
        /\ middleware = "cookie"
        /\ pc[w] = "handling"
        /\ ReadOnlyMethod(request[w].method)
        /\ stale[w]
        /\ ~pinned[w]
        /\ \A c \in Clients : lastWrite[c].at = -1 /\ jar[c] = EmptyDict

\* C16: the response phase, recording or not, leaves every worker's flag as
\* the detection set it and hands back the response the view returned (its
\* attributes untouched; the cookie variant adds at most the evidence cookie
\* to it, the cache variant nothing); delivering the response leaves the
\* flags alone too.
C16_ResponsePhaseKeepsFlag ==
    [][\A w \in Workers :
          /\ (Responds(w) \/ Delivers(w)) => pinned' = pinned
          /\ Responds(w) =>
                 \E marker \in Markers :
                     /\ response'[w].attrs = ViewResponse(marker).attrs
                     /\ IF middleware = "cookie"
                        THEN DOMAIN response'[w].cookies \subseteq {PINNING_COOKIE}
                        ELSE response'[w] = ViewResponse(marker)]_vars

\* C16 happens: the response phase has recorded the write of a read-only
\* request without evidence whose response carries the marker, and the worker
\* is still unpinned.
C16_Witness ==
    \E w \in Workers :
        /\ pc[w] = "sending"
        /\ request[w].method = "HEAD"
        /\ MarkerOf(response[w]) = True
        /\ lastWrite[request[w].client].at = now
        /\ ~pinned[w]

\* The evidence each channel holds for client c, and until when.
CookieHeld(c) == PINNING_COOKIE \in DOMAIN jar[c]

EntryHeld(c) == StoreKey(SessionKeyOf(c)) \in DOMAIN cache

\* C17: run side by side on the same requests of clients with a session key
\* that return their cookies, the two variants leave their workers' flags
\* equal after every detection, and once a response has reached the client
\* they hold evidence for the same clients, with the value "y" and the same
\* expiry.
C17_ChannelsAgree ==
    /\ pinned["w1"] = pinned["w2"]
    /\ (\A w \in Workers : pc[w] # "sending") =>
           \A c \in Clients :
               /\ CookieHeld(c) = EntryHeld(c)
               /\ CookieHeld(c) =>
                      /\ jar[c][PINNING_COOKIE].value = "y"
                      /\ cache[StoreKey(SessionKeyOf(c))] =
                             [value |-> "y", expires |-> jar[c][PINNING_COOKIE].expires]

\* C17 happens: one second before the evidence of a client's write expires,
\* a read-only request of the client is pinned by both variants, while the
\* other client's evidence, recorded later, lasts longer in both channels.
C17_Witness ==
    \E c, d \in Clients :
        /\ \A w \in Workers :
               /\ pc[w] = "handling"
               /\ request[w].client = c
               /\ request[w].method = "GET"
               /\ pinned[w]
        /\ jar[c][PINNING_COOKIE].expires = now + 1
        /\ d # c
        /\ EntryHeld(d)
        /\ cache[StoreKey(SessionKeyOf(d))].expires > now + 1

\* C18: in the cache variant the response phase of a write takes the key
\* from the session the request has at that moment: a request that arrived
\* without a session key and got one while it was handled records "y" with
\* the full lifetime under the new key, and the client's next request with
\* that key within the window is pinned; a request whose session still has no
\* key at the response phase leaves the store as it was.
C18_KeyTakenAtResponse ==
    [][\A w \in Workers :
          middleware = "cache" =>
              /\ (Responds(w) /\ ~HasKey(session[request[w].client]))
                    => IF HasKey(request[w].session)
                          /\ (~ReadOnlyMethod(request[w].method)
                                 \/ MarkerOf(response'[w]) = True)
                       THEN cache' = Recorded(StoreKey(request[w].session.session_key))
                       ELSE cache' = cache
              /\ (Detects(w) /\ HasKey(request'[w].session)
                     /\ lastWrite[request'[w].client].at >= 0
                     /\ now < lastWrite[request'[w].client].at + PINNING_SECONDS)
                    => pinned'[w]]_vars

\* C18 happens: a POST that arrived without a session key was given one
\* while it was handled, and its response phase has recorded evidence under
\* the new key, the only entry in the store.
C18_Witness ==
    \E w \in Workers :
        /\ middleware = "cache"
        /\ pc[w] = "sending"
        /\ request[w].method = "POST"
        /\ ~HasKey(session[request[w].client])
        /\ HasKey(request[w].session)
        /\ DOMAIN cache = {StoreKey(request[w].session.session_key)}
        /\ cache[StoreKey(request[w].session.session_key)] =
               [value |-> "y", expires |-> now + PINNING_SECONDS]

====
